---- MODULE Spec2Model ----
(***************************************************************************)
(* The duration-filter pipeline of filter_dysarthric_audio.py:             *)
(* AudioFilter.execute (validate, mkdir, load catalog, glob, probe/filter/ *)
(* copy loop) followed by DatasetExporter.export (sort, write manifest,    *)
(* log statistics), run by main under the __main__ exception handlers.     *)
(*                                                                         *)
(* Durations are integers in milliseconds (10.0 s = 10000).  Frame counts  *)
(* and rates of the modelled files divide exactly, so frames/rate is an    *)
(* exact number of milliseconds.  File names and catalog keys are          *)
(* sequences of one-character strings; spreadsheet cells are records       *)
(* [kind, val] so that pandas' NaN (an empty cell) is a value of its own.  *)
(***************************************************************************)
EXTENDS Integers, Sequences, FiniteSets, TLC

VARIABLES
    \* ---- inputs of the run (never changed by the program)
    config,          \* FilterConfig: min_duration, max_duration, target_duration
    dirFiles,        \* the *.wav files of audio_dir, in enumeration order
    sheet,           \* rows of the spreadsheet, each [num, text]
    audioDirExists,  \* config.audio_dir.exists()
    excelExists,     \* config.excel_file.exists()
    \* ---- the output directory on disk
    outDirExists,    \* output_dir exists
    audioSubExists,  \* output_dir/audio exists
    outAudio,        \* files in output_dir/audio (copies, as file records)
    manifestExists,  \* output_dir/filtered_dataset.csv exists
    manifestRows,    \* its rows, first to last
    \* ---- the process
    pc,              \* position of main
    run,             \* 1 = first run of the pipeline, 2 = the re-run
    catalogLoaded,   \* TranscriptionLoader.load was called in this run
    transcriptions,  \* the dict load returned, a function from key to cell
    audio_files,     \* list(audio_dir.glob("*.wav"))
    idx,             \* 1-based position of the for loop in audio_files
    filtered,        \* the list the loop accumulates
    df,              \* the sorted DataFrame of export, <<>> before the sort
    probed,          \* names get_duration was called on in this run
    probeLog,        \* what each of those calls returned
    copiedThisRun,   \* names copied by shutil.copy2 in this run
    mkdirThisRun,    \* _setup_output_directories ran in this run
    wroteManifest,   \* to_csv ran in this run
    warnings,        \* names with a "Missing transcription" warning, this run
    stats,           \* the lines _log_statistics has logged so far
    exitStatus,      \* -1 while running, else the exit status (-2: ended by SIGINT)
    failure,         \* the exception that left main, "none" otherwise
    failedAt,        \* pc at which it was raised
    \* ---- bookkeeping across the two runs
    sortMemo,        \* the order sort_values gave, per input (it is a function)
    manifest1,       \* manifest rows as the first run left them
    outAudio1        \* output audio directory as the first run left it

inputs == <<config, dirFiles, sheet, audioDirExists, excelExists>>
disk == <<outDirExists, audioSubExists, outAudio, manifestExists, manifestRows>>
proc == <<pc, run, catalogLoaded, transcriptions, audio_files, idx, filtered,
          df, probed, probeLog, copiedThisRun, mkdirThisRun, wroteManifest,
          warnings, stats, exitStatus, failure, failedAt>>
memo == <<sortMemo, manifest1, outAudio1>>
vars == <<inputs, disk, proc, memo>>

----------------------------------------------------------------------------
\* Bounds of the model.

\* Largest number of *.wav files in the input directory.
MaxFiles == 3

----------------------------------------------------------------------------
\* Values.

Abs(x) == IF x < 0 THEN -x ELSE x

\* A spreadsheet cell as pandas hands it over: a string, a number, or NaN
\* for an empty cell.
StrCell(s) == [kind |-> "str", val |-> s, n |-> 0]
NumCell(k) == [kind |-> "num", val |-> "", n |-> k]
NaN == [kind |-> "nan", val |-> "", n |-> 0]

\* Python truthiness of a cell: "" is falsy, NaN (a non-zero float) is truthy.
Truthy(c) == IF c.kind = "str" THEN c.val # "" ELSE IF c.kind = "num" THEN c.n # 0 ELSE TRUE

\* pandas.Series.notna on one element.
notna(c) == c.kind # "nan"

DigitChar == <<"0", "1", "2", "3", "4", "5", "6", "7", "8", "9">>

\* str(n) for an int n >= 0.
RECURSIVE IntToStr(_)
IntToStr(n) == IF n < 10 THEN <<DigitChar[n + 1]>>
               ELSE IntToStr(n \div 10) \o <<DigitChar[(n % 10) + 1]>>

\* pathlib.PurePath.stem: the name without its last suffix (a leading dot
\* starts no suffix).
LastDot(name) == LET S == {i \in 1..Len(name) : name[i] = "."}
                 IN IF S = {} THEN 0 ELSE CHOOSE i \in S : \A j \in S : j <= i
Stem(name) == LET d == LastDot(name)
              IN IF d <= 1 \/ d = Len(name) THEN name ELSE SubSeq(name, 1, d - 1)

RECURSIVE Pow2(_)
Pow2(n) == IF n = 0 THEN 1 ELSE 2 * Pow2(n - 1)

\* 2^s mod m
RECURSIVE Pow2Mod(_, _)
Pow2Mod(s, m) == IF s = 0 THEN 1 % m ELSE (2 * Pow2Mod(s - 1, m)) % m

\* floor(log2(ms / 125)) for ms > 0: the binary exponent of ms / 125, which
\* is that of (ms / 1000) plus 3.
BinaryExponent125(ms) ==
    IF ms >= 125
    THEN CHOOSE l \in 0..20 : 125 * Pow2(l) <= ms /\ ms < 125 * Pow2(l + 1)
    ELSE -(CHOOSE j \in 1..7 : ms * Pow2(j) >= 125 /\ ms * Pow2(j - 1) < 125)

\* Where the double nearest to ms / 1000 lies for ms = 5k: "above" or "below"
\* the decimal value, or "exact".  ms / 1000 = (k / 25) / 8; its 53-bit
\* significand is k * 2^s / 25 rounded to an integer, s = 52 - exponent, and
\* the remainder of k * 2^s by 25 says which way that rounding went.
FloatSide(ms) ==
    LET k == ms \div 5
        s == 52 - BinaryExponent125(ms)
        rem == ((k % 25) * Pow2Mod(s % 20, 25)) % 25
    IN IF rem = 0 THEN "exact" ELSE IF rem >= 13 THEN "above" ELSE "below"

\* round(duration, 2) on milliseconds: to the nearest multiple of 10.  Python
\* rounds the exact value of the double: on a decimal half (last digit 5) the
\* side on which the double lies decides, and only a half that is exact in
\* binary is rounded to even.
Round2(ms) == LET q == ms \div 10
                  r == ms % 10
              IN IF r < 5 THEN q * 10
                 ELSE IF r > 5 THEN (q + 1) * 10
                 ELSE IF FloatSide(ms) = "above" THEN (q + 1) * 10
                 ELSE IF FloatSide(ms) = "below" THEN q * 10
                 ELSE IF q % 2 = 0 THEN q * 10 ELSE (q + 1) * 10

----------------------------------------------------------------------------
\* The input universe.

Wav(stem) == stem \o <<".", "w", "a", "v">>

AudioFile(stem, ok, frames, rate) ==
    [name |-> Wav(stem), readable |-> ok, frames |-> frames, rate |-> rate,
     data |-> "full"]

FileUniverse == {
    AudioFile(<<"1">>, TRUE, 12000, 1000),    \* 12.0 s
    AudioFile(<<"2">>, TRUE, 7250, 500),      \* 14.5 s
    AudioFile(<<"3">>, TRUE, 8000, 1000),     \*  8.0 s
    AudioFile(<<"4">>, FALSE, 0, 0),          \* not a wave file
    AudioFile(<<"5">>, TRUE, 11000, 1000),    \* 11.0 s
    AudioFile(<<"6">>, TRUE, 6500, 500),      \* 13.0 s
    AudioFile(<<"7">>, TRUE, 10004, 1000),    \* 10.004 s
    AudioFile(<<"8">>, TRUE, 10005, 1000),    \* 10.005 s, stored as 10.01
    AudioFile(<<"9">>, TRUE, 14995, 1000) }   \* 14.995 s, stored as 14.99

\* A directory listing: distinct files in some enumeration order.
FileLists == {s \in UNION {[1..n -> FileUniverse] : n \in 0..MaxFiles} :
                 \A i, j \in 1..Len(s) : i # j => s[i] # s[j]}

Row(num, text) == [num |-> num, text |-> text]

SheetFull == << Row(NumCell(1), StrCell("odin")), Row(NumCell(2), StrCell("dva")),
                Row(NumCell(3), StrCell("tri")), Row(NumCell(4), StrCell("chetyre")),
                Row(NumCell(5), StrCell("pyat")), Row(NumCell(6), StrCell("shest")),
                Row(NumCell(7), StrCell("sem")), Row(NumCell(8), StrCell("vosem")),
                Row(NumCell(9), StrCell("devyat")) >>
SheetPartial == << Row(NumCell(1), StrCell("odin")), Row(NumCell(6), StrCell("shest")),
                   Row(NumCell(1), StrCell("raz")) >>
SheetEmptyCell == << Row(NumCell(1), StrCell("odin")), Row(NumCell(5), NaN),
                     Row(NumCell(6), StrCell("shest")) >>
SheetBadIndex == << Row(NumCell(1), StrCell("odin")), Row(NaN, StrCell("dva")) >>

Sheets == {SheetFull, SheetPartial, SheetEmptyCell, SheetBadIndex}


\* FilterConfig, in milliseconds.  The first is the one main builds (the
\* dataclass defaults); the others are configurations a caller may build.
DefaultConfig == [min_duration |-> 10000, max_duration |-> 15000, target_duration |-> 12000]
NarrowConfig == [min_duration |-> 10004, max_duration |-> 12500, target_duration |-> 12000]
LateTargetConfig == [min_duration |-> 10000, max_duration |-> 15000, target_duration |-> 13000]

Configs == {DefaultConfig, NarrowConfig, LateTargetConfig}

----------------------------------------------------------------------------
\* The program's functions.

\* Mutant of get_duration: the except clause is missing, so the error of an
\* unreadable file propagates.
get_duration_propagating(f) ==
    IF f.readable /\ f.rate # 0
    THEN [kind |-> "value", ms |-> (f.frames * 1000) \div f.rate]
    ELSE [kind |-> "raise", ms |-> 0]

\* WaveAudioReader.get_duration: frames / float(rate), or None on any
\* exception (a file wave.open rejects, a zero rate).  It never raises.
get_duration(f) ==
    IF f.readable /\ f.rate # 0
    THEN [kind |-> "value", ms |-> (f.frames * 1000) \div f.rate]
    ELSE [kind |-> "none", ms |-> 0]

\* The dict comprehension of TranscriptionLoader.load: key str(int(num)),
\* later rows replacing earlier ones with the same key.
CatalogKey(row) == IntToStr(row.num.n)
LoadDict(rows) ==
    LET keys == {CatalogKey(rows[i]) : i \in 1..Len(rows)}
        last(k) == CHOOSE i \in 1..Len(rows) :
                      /\ CatalogKey(rows[i]) = k
                      /\ \A j \in 1..Len(rows) : CatalogKey(rows[j]) = k => j <= i
    IN [k \in keys |-> rows[last(k)].text]

\* TranscriptionLoader.load: read_excel raises when the file is missing,
\* int(NaN) raises on an empty index cell.
load(exists, rows) ==
    IF ~exists THEN [raised |-> "FileNotFoundError", dict |-> <<>>]
    ELSE IF \E i \in 1..Len(rows) : rows[i].num.kind # "num"
    THEN [raised |-> "ValueError", dict |-> <<>>]
    ELSE [raised |-> "none", dict |-> LoadDict(rows)]

\* dict.get(key, default)
DictGet(d, k, default) == IF k \in DOMAIN d THEN d[k] ELSE default

\* Mutant of validate_paths: the spreadsheet check is missing.
validate_paths_audio_only(audioDir, excel) ==
    IF ~audioDir THEN "FileNotFoundError" ELSE "none"

\* AudioFilter._validate_paths: the exception it raises, or "none".
validate_paths(audioDir, excel) ==
    IF ~audioDir THEN "FileNotFoundError"
    ELSE IF ~excel THEN "FileNotFoundError"
    ELSE "none"

\* Path.mkdir: FileExistsError when the directory exists and exist_ok is off.
Mkdir(exists, exist_ok) == [raised |-> exists /\ ~exist_ok, exists |-> TRUE]

\* Mutant of mkdir_output_dir: mkdir without exist_ok.
mkdir_output_dir_strict(exists) == Mkdir(exists, FALSE)

\* _setup_output_directories, line 100:
\* output_dir.mkdir(parents=True, exist_ok=True)
mkdir_output_dir(exists) == Mkdir(exists, TRUE)

\* _setup_output_directories, line 101: _audio_output_dir.mkdir(exist_ok=True)
mkdir_audio_dir(exists) == Mkdir(exists, TRUE)

\* AudioFilter._is_within_duration_range
is_within_duration_range(cfg, duration) ==
    cfg.min_duration <= duration /\ duration <= cfg.max_duration

\* AudioFilter._process_audio_file: the copy, the warning, and the record
\* (len() of a cell that is no string raises TypeError, after the copy).
process_audio_file(f, duration, trans) ==
    LET file_id == Stem(f.name)
        transcription == DictGet(trans, file_id, StrCell(""))
    IN [warned |-> ~Truthy(transcription),
        copied |-> TRUE,
        raised |-> IF transcription.kind = "str" THEN "none" ELSE "TypeError",
        metadata |-> [file_id |-> file_id,
                      filename |-> f.name,
                      duration_sec |-> Round2(duration),
                      transcription |-> transcription,
                      text_length |-> IF transcription.kind = "str"
                                      THEN Len(transcription.val) ELSE 0,
                      original_path |-> <<"audio_dir", f.name>>,
                      new_path |-> <<"output_dir", "audio", f.name>>]]

\* for-loop exit test of AudioFilter._filter_and_copy
LoopFinished(i, files) == i > Len(files)

\* Mutant of distance_from_target: the abs() is missing.
signed_distance_from_target(m, target) == m.duration_sec - target

\* The key DatasetExporter.export sorts by.
distance_from_target(m, target) == Abs(m.duration_sec - target)

Perms(n) == {p \in [1..n -> 1..n] : \A i, j \in 1..n : i # j => p[i] # p[j]}

\* DataFrame.sort_values with the default kind (quicksort, which is not
\* stable): every order of the rows that is non-decreasing in the key.
SortOrders(metadata, target) ==
    {p \in Perms(Len(metadata)) :
        \A i, j \in 1..Len(metadata) :
            i < j => distance_from_target(metadata[p[i]], target)
                       <= distance_from_target(metadata[p[j]], target)}

RECURSIVE SumOver(_, _)
SumOver(rows, field) ==
    IF rows = <<>> THEN 0
    ELSE rows[1][field] + SumOver(Tail(rows), field)

\* Smallest and largest value of a field over a non-empty list of rows.
MinOver(rows, field) ==
    CHOOSE v \in {rows[i][field] : i \in 1..Len(rows)} :
        \A i \in 1..Len(rows) : v <= rows[i][field]
MaxOver(rows, field) ==
    CHOOSE v \in {rows[i][field] : i \in 1..Len(rows)} :
        \A i \in 1..Len(rows) : rows[i][field] <= v

\* The k-th smallest value of a field (k in 1..Len(rows)).
KthOver(rows, field, k) ==
    CHOOSE v \in {rows[i][field] : i \in 1..Len(rows)} :
        /\ Cardinality({i \in 1..Len(rows) : rows[i][field] < v}) < k
        /\ Cardinality({i \in 1..Len(rows) : rows[i][field] <= v}) >= k

\* Twice the median of a field (the median is the mean of the two middle
\* values when the count is even).
TwiceMedianOver(rows, field) ==
    LET n == Len(rows)
    IN IF n % 2 = 1 THEN 2 * KthOver(rows, field, (n + 1) \div 2)
       ELSE KthOver(rows, field, n \div 2) + KthOver(rows, field, (n \div 2) + 1)

\* DatasetExporter._log_statistics on a non-empty frame: the lines it logs,
\* in order, each with the numbers it shows before formatting (a mean as sum
\* and count, the median doubled).  The last line is logged only when
\* with_transcription > 0.
log_statistics(rows) ==
    LET with_transcription == Cardinality({i \in 1..Len(rows) : notna(rows[i].transcription)})
        total == [line |-> "Total filtered records", count |-> Len(rows),
                  min |-> 0, max |-> 0, sum |-> 0, median2 |-> 0]
        duration == [line |-> "Duration stats", count |-> Len(rows),
                     min |-> MinOver(rows, "duration_sec"),
                     max |-> MaxOver(rows, "duration_sec"),
                     sum |-> SumOver(rows, "duration_sec"),
                     median2 |-> TwiceMedianOver(rows, "duration_sec")]
        coverage == [line |-> "Transcription coverage", count |-> Len(rows),
                     min |-> 0, max |-> 0, sum |-> with_transcription, median2 |-> 0]
        average == [line |-> "Avg text length", count |-> Len(rows),
                    min |-> 0, max |-> 0, sum |-> SumOver(rows, "text_length"),
                    median2 |-> 0]
    IN IF with_transcription > 0 THEN <<total, duration, coverage, average>>
       ELSE <<total, duration, coverage>>

\* __main__: exit status after main returned or raised.
exit_status(raised) == IF raised = "none" THEN 0 ELSE 1

----------------------------------------------------------------------------
\* The state machine.  KeyboardInterrupt can arrive between any two
\* statements, so every statement with an effect of its own is a step.

NoStats == <<>>

\* Positions of main inside the for loop of _filter_and_copy and inside
\* DatasetExporter.export.
LoopPcs == {"loop", "lookup", "copy", "record"}
ExportPcs == {"export", "write", "stats"}
HandlerPcs == {"handling"}
RunningPcs == {"validate", "setup", "setup_audio", "load", "glob", "completed"}
                 \cup LoopPcs \cup ExportPcs

\* What copy2 can leave at the destination when the process is stopped while
\* it writes: an empty file, which wave.open rejects, or the header and part
\* of the data, which probes like the source (the frame count is read from
\* the header).
Truncated(f) == {[f EXCEPT !.readable = FALSE, !.frames = 0, !.data = "empty"],
                 [f EXCEPT !.data = "partial"]}

\* Per-run state at the start of main.
FreshRun ==
    /\ pc = "validate"
    /\ catalogLoaded = FALSE
    /\ transcriptions = <<>>
    /\ audio_files = <<>>
    /\ idx = 1
    /\ filtered = <<>>
    /\ df = <<>>
    /\ probed = {}
    /\ probeLog = <<>>
    /\ copiedThisRun = {}
    /\ mkdirThisRun = FALSE
    /\ wroteManifest = FALSE
    /\ warnings = {}
    /\ stats = NoStats
    /\ exitStatus = -1
    /\ failure = "none"
    /\ failedAt = "none"

Init ==
    /\ config \in Configs
    /\ audioDirExists \in BOOLEAN
    /\ excelExists \in BOOLEAN
    /\ dirFiles \in (IF audioDirExists THEN FileLists ELSE {<<>>})
    /\ sheet \in (IF excelExists THEN Sheets ELSE {<<>>})
    /\ outDirExists = FALSE
    /\ audioSubExists = FALSE
    /\ outAudio = {}
    /\ manifestExists = FALSE
    /\ manifestRows = <<>>
    /\ run = 1
    /\ FreshRun
    /\ sortMemo = {}
    /\ manifest1 = <<>>
    /\ outAudio1 = {}

\* An exception leaves main and enters the matching except clause of
\* __main__ (lines 222 and 225).
Raise(err) ==
    /\ pc' = "handling"
    /\ failure' = err
    /\ failedAt' = pc
    /\ UNCHANGED exitStatus

\* AudioFilter.execute, line 82: _validate_paths.
Validate ==
    /\ pc = "validate"
    /\ LET err == validate_paths(audioDirExists, excelExists)
       IN IF err # "none" THEN Raise(err)
          ELSE /\ pc' = "setup"
               /\ UNCHANGED <<failure, failedAt, exitStatus>>
    /\ UNCHANGED <<inputs, disk, memo, run, catalogLoaded, transcriptions,
                   audio_files, idx, filtered, df, probed, probeLog,
                   copiedThisRun, mkdirThisRun, wroteManifest, warnings, stats>>

\* _setup_output_directories, line 100: mkdir of output_dir.
Setup ==
    /\ pc = "setup"
    /\ LET r == mkdir_output_dir(outDirExists)
       IN /\ outDirExists' = r.exists
          /\ mkdirThisRun' = TRUE
          /\ IF r.raised THEN Raise("FileExistsError")
             ELSE /\ pc' = "setup_audio"
                  /\ UNCHANGED <<failure, failedAt, exitStatus>>
    /\ UNCHANGED <<inputs, memo, audioSubExists, outAudio, manifestExists,
                   manifestRows, run, catalogLoaded, transcriptions, audio_files,
                   idx, filtered, df, probed, probeLog, copiedThisRun,
                   wroteManifest, warnings, stats>>

\* _setup_output_directories, line 101: mkdir of output_dir/audio.
SetupAudio ==
    /\ pc = "setup_audio"
    /\ LET r == mkdir_audio_dir(audioSubExists)
       IN /\ audioSubExists' = r.exists
          /\ IF r.raised THEN Raise("FileExistsError")
             ELSE /\ pc' = "load"
                  /\ UNCHANGED <<failure, failedAt, exitStatus>>
    /\ UNCHANGED <<inputs, memo, outDirExists, outAudio, manifestExists,
                   manifestRows, run, catalogLoaded, transcriptions, audio_files,
                   idx, filtered, df, probed, probeLog, copiedThisRun,
                   mkdirThisRun, wroteManifest, warnings, stats>>

\* AudioFilter.execute, lines 85-86: load the transcription catalog.
Load ==
    /\ pc = "load"
    /\ LET r == load(excelExists, sheet)
       IN /\ catalogLoaded' = TRUE
          /\ transcriptions' = r.dict
          /\ IF r.raised # "none" THEN Raise(r.raised)
             ELSE /\ pc' = "glob"
                  /\ UNCHANGED <<failure, failedAt, exitStatus>>
    /\ UNCHANGED <<inputs, disk, memo, run, audio_files, idx, filtered, df,
                   probed, probeLog, copiedThisRun, mkdirThisRun, wroteManifest,
                   warnings, stats>>

\* AudioFilter.execute, lines 88-89: enumerate the audio files; line 91
\* enters _filter_and_copy with an empty result list.
Glob ==
    /\ pc = "glob"
    /\ audio_files' = dirFiles
    /\ idx' = 1
    /\ filtered' = <<>>
    /\ pc' = "loop"
    /\ UNCHANGED <<inputs, disk, memo, run, catalogLoaded, transcriptions, df,
                   probed, probeLog, copiedThisRun, mkdirThisRun, wroteManifest,
                   warnings, stats, exitStatus, failure, failedAt>>

\* The file of the current iteration, its probed duration, and what
\* _process_audio_file makes of it.
CurrentFile == audio_files[idx]
CurrentDuration == get_duration(CurrentFile)
CurrentProcess == process_audio_file(CurrentFile, CurrentDuration.ms, transcriptions)

\* _filter_and_copy, lines 114-121: probe the next file; skip it when the
\* probe failed or the duration is out of range.
Probe ==
    /\ pc = "loop"
    /\ ~LoopFinished(idx, audio_files)
    /\ LET f == CurrentFile
           d == CurrentDuration
       IN /\ probed' = probed \cup {f.name}
          /\ probeLog' = Append(probeLog, [file |-> f, result |-> d])
          /\ IF d.kind = "raise"
             THEN /\ Raise("WaveError")
                  /\ UNCHANGED idx
             ELSE IF d.kind = "none" \/ ~is_within_duration_range(config, d.ms)
             THEN /\ idx' = idx + 1
                  /\ UNCHANGED <<pc, failure, failedAt, exitStatus>>
             ELSE /\ pc' = "lookup"
                  /\ UNCHANGED <<idx, failure, failedAt, exitStatus>>
    /\ UNCHANGED <<inputs, disk, memo, run, catalogLoaded, transcriptions,
                   audio_files, filtered, df, copiedThisRun, mkdirThisRun,
                   wroteManifest, warnings, stats>>

\* _process_audio_file, lines 138-142: look the transcription up and warn
\* when it is falsy.
Lookup ==
    /\ pc = "lookup"
    /\ warnings' = IF CurrentProcess.warned
                   THEN warnings \cup {CurrentFile.name} ELSE warnings
    /\ pc' = "copy"
    /\ UNCHANGED <<inputs, disk, memo, run, catalogLoaded, transcriptions,
                   audio_files, idx, filtered, df, probed, probeLog,
                   copiedThisRun, mkdirThisRun, wroteManifest, stats,
                   exitStatus, failure, failedAt>>

\* _process_audio_file, lines 144-145: copy2 into output_dir/audio,
\* replacing a file of that name.
Copy ==
    /\ pc = "copy"
    /\ CurrentProcess.copied
    /\ outAudio' = {g \in outAudio : g.name # CurrentFile.name} \cup {CurrentFile}
    /\ copiedThisRun' = copiedThisRun \cup {CurrentFile.name}
    /\ pc' = "record"
    /\ UNCHANGED <<inputs, memo, outDirExists, audioSubExists, manifestExists,
                   manifestRows, run, catalogLoaded, transcriptions, audio_files,
                   idx, filtered, df, probed, probeLog, mkdirThisRun,
                   wroteManifest, warnings, stats, exitStatus, failure, failedAt>>

\* _process_audio_file, lines 147-155, and line 124: build the record (len
\* of a cell that is no string raises) and append it.
Record ==
    /\ pc = "record"
    /\ IF CurrentProcess.raised # "none"
       THEN /\ Raise(CurrentProcess.raised)
            /\ UNCHANGED <<idx, filtered>>
       ELSE /\ filtered' = Append(filtered, CurrentProcess.metadata)
            /\ idx' = idx + 1
            /\ pc' = "loop"
            /\ UNCHANGED <<failure, failedAt, exitStatus>>
    /\ UNCHANGED <<inputs, disk, memo, run, catalogLoaded, transcriptions,
                   audio_files, df, probed, probeLog, copiedThisRun,
                   mkdirThisRun, wroteManifest, warnings, stats>>

\* The loop is over: _filter_and_copy logs the count and returns, execute
\* returns, main builds the exporter.
LoopDone ==
    /\ pc = "loop"
    /\ LoopFinished(idx, audio_files)
    /\ pc' = "export"
    /\ UNCHANGED <<inputs, disk, memo, run, catalogLoaded, transcriptions,
                   audio_files, idx, filtered, df, probed, probeLog,
                   copiedThisRun, mkdirThisRun, wroteManifest, warnings, stats,
                   exitStatus, failure, failedAt>>

\* DatasetExporter.export, lines 164-178.  A DataFrame built from an empty
\* list has no columns, so df['duration_sec'] raises KeyError.  Otherwise the
\* frame is sorted; sort_values is a function of its input, so the same
\* input is given the same order again.
Sort ==
    /\ pc = "export"
    /\ IF filtered = <<>>
       THEN /\ Raise("KeyError")
            /\ UNCHANGED <<df, sortMemo>>
       ELSE \E p \in SortOrders(filtered, config.target_duration) :
              /\ \A e \in sortMemo : e.input = filtered => e.order = p
              /\ sortMemo' = sortMemo \cup {[input |-> filtered, order |-> p]}
              /\ df' = [i \in 1..Len(filtered) |-> filtered[p[i]]]
              /\ pc' = "write"
              /\ UNCHANGED <<failure, failedAt, exitStatus>>
    /\ UNCHANGED <<inputs, disk, manifest1, outAudio1, run, catalogLoaded,
                   transcriptions, audio_files, idx, filtered, probed, probeLog,
                   copiedThisRun, mkdirThisRun, wroteManifest, warnings, stats>>

\* DatasetExporter.export, lines 180-181: to_csv.
Write ==
    /\ pc = "write"
    /\ manifestRows' = df
    /\ manifestExists' = TRUE
    /\ wroteManifest' = TRUE
    /\ pc' = "stats"
    /\ UNCHANGED <<inputs, memo, outDirExists, audioSubExists, outAudio, run,
                   catalogLoaded, transcriptions, audio_files, idx, filtered, df,
                   probed, probeLog, copiedThisRun, mkdirThisRun, warnings,
                   stats, exitStatus, failure, failedAt>>

\* DatasetExporter._log_statistics, lines 187-197: the next logger.info.
LogStatistics ==
    /\ pc = "stats"
    /\ Len(stats) < Len(log_statistics(df))
    /\ stats' = Append(stats, log_statistics(df)[Len(stats) + 1])
    /\ UNCHANGED <<inputs, disk, memo, pc, run, catalogLoaded, transcriptions,
                   audio_files, idx, filtered, df, probed, probeLog,
                   copiedThisRun, mkdirThisRun, wroteManifest, warnings,
                   exitStatus, failure, failedAt>>

\* _log_statistics and export return (line 184); main is at its last
\* statement, the "Pipeline completed" log of line 216.
ExportReturn ==
    /\ pc = "stats"
    /\ Len(stats) = Len(log_statistics(df))
    /\ pc' = "completed"
    /\ UNCHANGED <<inputs, disk, memo, run, catalogLoaded, transcriptions,
                   audio_files, idx, filtered, df, probed, probeLog,
                   copiedThisRun, mkdirThisRun, wroteManifest, warnings, stats,
                   exitStatus, failure, failedAt>>

\* Line 216 logs, main returns, the process ends with status 0.
Complete ==
    /\ pc = "completed"
    /\ pc' = "done"
    /\ exitStatus' = exit_status("none")
    /\ UNCHANGED <<inputs, disk, memo, run, catalogLoaded, transcriptions,
                   audio_files, idx, filtered, df, probed, probeLog,
                   copiedThisRun, mkdirThisRun, wroteManifest, warnings, stats,
                   failure, failedAt>>

\* __main__, lines 223-224 and 226-227: the handler logs and calls
\* sys.exit(1).
HandlerExit ==
    /\ pc = "handling"
    /\ pc' = "failed"
    /\ exitStatus' = exit_status(failure)
    /\ UNCHANGED <<inputs, disk, memo, run, catalogLoaded, transcriptions,
                   audio_files, idx, filtered, df, probed, probeLog,
                   copiedThisRun, mkdirThisRun, wroteManifest, warnings, stats,
                   failure, failedAt>>

\* Ctrl-C while the handler logs: the KeyboardInterrupt is raised inside an
\* except clause, nothing catches it, and the interpreter ends the process
\* by SIGINT (return code -2); sys.exit(1) is not reached.
InterruptHandler ==
    /\ pc = "handling"
    /\ pc' = "killed"
    /\ exitStatus' = -2
    /\ UNCHANGED <<inputs, disk, memo, run, catalogLoaded, transcriptions,
                   audio_files, idx, filtered, df, probed, probeLog,
                   copiedThisRun, mkdirThisRun, wroteManifest, warnings, stats,
                   failure, failedAt>>

\* Ctrl-C between two statements of main: KeyboardInterrupt, caught by
\* __main__.
Interrupt ==
    /\ pc \in RunningPcs
    /\ Raise("KeyboardInterrupt")
    /\ UNCHANGED <<inputs, disk, memo, run, catalogLoaded, transcriptions,
                   audio_files, idx, filtered, df, probed, probeLog,
                   copiedThisRun, mkdirThisRun, wroteManifest, warnings, stats>>

\* Ctrl-C while copy2 is writing: the destination holds part of the file.
InterruptCopy ==
    /\ pc = "copy"
    /\ \E t \in Truncated(CurrentFile) :
          outAudio' = {g \in outAudio : g.name # CurrentFile.name} \cup {t}
    /\ Raise("KeyboardInterrupt")
    /\ UNCHANGED <<inputs, memo, outDirExists, audioSubExists, manifestExists,
                   manifestRows, run, catalogLoaded, transcriptions, audio_files,
                   idx, filtered, df, probed, probeLog, copiedThisRun,
                   mkdirThisRun, wroteManifest, warnings, stats>>

\* Ctrl-C while to_csv is writing: the manifest holds the first rows only.
InterruptWrite ==
    /\ pc = "write"
    /\ \E n \in 0..(Len(df) - 1) : manifestRows' = SubSeq(df, 1, n)
    /\ manifestExists' = TRUE
    /\ wroteManifest' = TRUE
    /\ Raise("KeyboardInterrupt")
    /\ UNCHANGED <<inputs, memo, outDirExists, audioSubExists, outAudio, run,
                   catalogLoaded, transcriptions, audio_files, idx, filtered, df,
                   probed, probeLog, copiedThisRun, mkdirThisRun, warnings, stats>>

\* The pipeline is started again on the same inputs, with the output
\* directory as the completed first run left it.
Rerun ==
    /\ pc = "done"
    /\ run = 1
    /\ run' = 2
    /\ manifest1' = manifestRows
    /\ outAudio1' = outAudio
    /\ pc' = "validate"
    /\ catalogLoaded' = FALSE
    /\ transcriptions' = <<>>
    /\ audio_files' = <<>>
    /\ idx' = 1
    /\ filtered' = <<>>
    /\ df' = <<>>
    /\ probed' = {}
    /\ probeLog' = <<>>
    /\ copiedThisRun' = {}
    /\ mkdirThisRun' = FALSE
    /\ wroteManifest' = FALSE
    /\ warnings' = {}
    /\ stats' = NoStats
    /\ exitStatus' = -1
    /\ failure' = "none"
    /\ failedAt' = "none"
    /\ UNCHANGED <<inputs, disk, sortMemo>>

Next ==
    \/ Validate
    \/ Setup
    \/ SetupAudio
    \/ Load
    \/ Glob
    \/ Probe
    \/ Lookup
    \/ Copy
    \/ Record
    \/ LoopDone
    \/ Sort
    \/ Write
    \/ LogStatistics
    \/ ExportReturn
    \/ Complete
    \/ HandlerExit
    \/ InterruptHandler
    \/ Interrupt
    \/ InterruptCopy
    \/ InterruptWrite
    \/ Rerun

Spec == Init /\ [][Next]_vars

----------------------------------------------------------------------------
\* Helpers of the properties.

Occurrences(seq, x) == Cardinality({i \in 1..Len(seq) : seq[i] = x})

Names(seq) == {seq[i].name : i \in 1..Len(seq)}

Filenames(rows) == {rows[i].filename : i \in 1..Len(rows)}

\* Position of the record of file `name` in `rows` (0 when absent).
PositionOf(rows, name) ==
    LET S == {i \in 1..Len(rows) : rows[i].filename = name}
    IN IF S = {} THEN 0 ELSE CHOOSE i \in S : TRUE

\* The run ended, one way or the other.
Ended == pc \in {"done", "failed", "killed"}

\* An exception left main: the handler is running, or the process is over.
Failed == pc \in {"handling", "failed", "killed"}

\* The logged line of that name, as a set (empty when it was not logged).
Logged(name) == {stats[i] : i \in {k \in 1..Len(stats) : stats[k].line = name}}

\* The file's true duration in milliseconds lies in the configured range.
TrueDurationInRange(f) ==
    /\ f.readable
    /\ config.min_duration * f.rate <= f.frames * 1000
    /\ f.frames * 1000 <= config.max_duration * f.rate

\* The catalog gives the file a non-empty text.
HasUsableTranscription(f) ==
    \E i \in 1..Len(sheet) :
        /\ sheet[i].num.kind = "num"
        /\ IntToStr(sheet[i].num.n) \o <<".", "w", "a", "v">> = f.name
        /\ \A j \in (i + 1)..Len(sheet) : sheet[j].num # sheet[i].num
        /\ sheet[i].text.kind = "str"
        /\ sheet[i].text.val # ""

----------------------------------------------------------------------------
\* C1.  Every row of the manifest has a stored duration_sec within
\* [min_duration, max_duration], for every configuration, and a file whose
\* probed duration is outside the range yields no row.
C1_ManifestDurationsInRange ==
    manifestExists =>
        /\ \A i \in 1..Len(manifestRows) :
              /\ config.min_duration <= manifestRows[i].duration_sec
              /\ manifestRows[i].duration_sec <= config.max_duration
        /\ \A i \in 1..Len(dirFiles) :
              ~TrueDurationInRange(dirFiles[i])
                 => dirFiles[i].name \notin Filenames(manifestRows)

\* C2.  For a non-empty list of records, the manifest rows are non-decreasing
\* in |duration_sec - target_duration| and are a permutation of the records
\* the selector returned.
C2_SortedPermutation ==
    (pc = "done" /\ filtered # <<>>) =>
        /\ \A i, j \in 1..Len(manifestRows) :
              i < j => Abs(manifestRows[i].duration_sec - config.target_duration)
                         <= Abs(manifestRows[j].duration_sec - config.target_duration)
        /\ Len(manifestRows) = Len(filtered)
        /\ \A i \in 1..Len(filtered) :
              Occurrences(manifestRows, filtered[i]) = Occurrences(filtered, filtered[i])

\* Witness of C2: an export that had to reorder records of different distance.
C2_Witness ==
    /\ pc = "done"
    /\ Len(filtered) >= 2
    /\ manifestRows # filtered
    /\ Abs(manifestRows[1].duration_sec - config.target_duration)
         < Abs(manifestRows[Len(manifestRows)].duration_sec - config.target_duration)

\* C3.  With the audio directory or the spreadsheet missing, execute raises
\* the not-found error in _validate_paths before any other effect: no
\* directory created, catalog not loaded, nothing probed or copied, no
\* manifest; the handler then exits with status 1.  (Read for a run the user
\* does not interrupt: a Ctrl-C before _validate_paths raises replaces the
\* error, one while the handler logs ends the process by SIGINT; neither has
\* any other effect.)
C3_NotFoundBeforeAnyEffect ==
    (pc # "validate" /\ ~(audioDirExists /\ excelExists)) =>
        /\ Failed
        /\ failedAt = "validate"
        /\ failure \in {"FileNotFoundError", "KeyboardInterrupt"}
        /\ pc = "failed" => exitStatus = 1
        /\ pc = "killed" => exitStatus = -2
        /\ ~mkdirThisRun /\ ~outDirExists /\ ~audioSubExists
        /\ ~catalogLoaded
        /\ probed = {} /\ copiedThisRun = {} /\ outAudio = {}
        /\ ~wroteManifest /\ ~manifestExists

\* Witness of C3: the spreadsheet is missing, the directory holds files, and
\* the run ended in _validate_paths with status 1.
C3_Witness ==
    /\ pc = "failed"
    /\ failure = "FileNotFoundError"
    /\ exitStatus = 1
    /\ audioDirExists /\ ~excelExists
    /\ dirFiles # <<>>

\* The manifest is written only after the loop has processed every
\* enumerated file.
ManifestOnlyAfterLoop ==
    wroteManifest =>
        /\ idx = Len(audio_files) + 1
        /\ audio_files = dirFiles
        /\ probed = Names(dirFiles)
        /\ Len(probeLog) = Len(dirFiles)

\* C4.  The manifest is written only after the loop has processed every
\* enumerated file; a run that fails (exception or interrupt) while loading
\* the catalog or inside the loop writes no manifest, whatever it has copied
\* by then, and the process exits with status 1.
C4_ManifestOnlyAfterLoop ==
    /\ ManifestOnlyAfterLoop
    /\ (Failed /\ failedAt \in {"load"} \cup LoopPcs) => ~wroteManifest
    /\ (Ended /\ failedAt \in {"load"} \cup LoopPcs) => exitStatus = 1

\* C5.  A retained file with no usable transcription (identifier absent from
\* the catalog, or its text cell empty) never makes the selector fail: once
\* its iteration is over a warning is logged, the file is copied, its record
\* has transcription "" and text_length 0, and the record is in the manifest.
C5_MissingTranscriptionTolerated ==
    \A i \in 1..Len(audio_files) :
        LET f == audio_files[i]
        IN (TrueDurationInRange(f) /\ ~HasUsableTranscription(f)) =>
              /\ ~(Failed /\ failure = "TypeError" /\ idx = i)
              /\ i < idx =>
                    /\ f.name \in copiedThisRun
                    /\ f.name \in warnings
                    /\ \E k \in 1..Len(filtered) :
                          /\ filtered[k].filename = f.name
                          /\ filtered[k].transcription = StrCell("")
                          /\ filtered[k].text_length = 0
              /\ pc = "done" => f.name \in Filenames(manifestRows)

\* C6.  get_duration returns None for a file it cannot read and never
\* raises; such a file is neither copied nor given a record, the other files
\* are still processed, and the retained files are those of the directory
\* without it.  For a readable file the result is frames / rate.
C6_UnreadableSkipped ==
    /\ failure # "WaveError"
    /\ \A i \in 1..Len(probeLog) :
          LET f == probeLog[i].file
              r == probeLog[i].result
          IN IF f.readable
             THEN r.kind = "value" /\ r.ms * f.rate = f.frames * 1000
             ELSE /\ r.kind = "none"
                  /\ f.name \notin copiedThisRun
                  /\ f.name \notin Filenames(filtered)
    /\ pc \in ExportPcs \cup {"completed", "done"} =>
          /\ probed = Names(dirFiles)
          /\ Filenames(filtered) =
                {dirFiles[i].name : i \in {k \in 1..Len(dirFiles) :
                                              TrueDurationInRange(dirFiles[k])}}

\* Witness of C6: the first enumerated file was unreadable and a later one
\* was retained and exported.
C6_Witness ==
    /\ pc = "done"
    /\ Len(audio_files) >= 2
    /\ ~audio_files[1].readable
    /\ filtered # <<>>

\* C7.  A second run on unchanged inputs, after a first run that populated
\* the output directory and wrote its manifest, raises no error of its own
\* (only Ctrl-C can end it early) and leaves the same copies and the same
\* manifest.
C7_RerunIdempotent ==
    run = 2 =>
        /\ Failed => failure = "KeyboardInterrupt"
        /\ pc = "done" => /\ manifestRows = manifest1
                          /\ outAudio = outAudio1
                          /\ exitStatus = 0

\* Witness of C7: the second run completed over an output directory that
\* held at least two copies.
C7_Witness ==
    /\ run = 2
    /\ pc = "done"
    /\ Cardinality(outAudio1) >= 2
    /\ copiedThisRun # {}

\* C8.  Every run whose preconditions hold, also one that retains no file,
\* ends with exit status 0 and a manifest holding exactly one row per file
\* copied in the run.  (Runs ended by Ctrl-C, by a malformed spreadsheet or
\* by the empty-cell failure of C5 are left out.)
C8_AlwaysCompletesWithManifest ==
    (/\ Ended
     /\ pc # "killed"
     /\ audioDirExists /\ excelExists
     /\ failure \notin {"KeyboardInterrupt", "ValueError", "TypeError"}) =>
        /\ pc = "done"
        /\ exitStatus = 0
        /\ wroteManifest
        /\ Len(manifestRows) = Cardinality(copiedThisRun)
        /\ Filenames(manifestRows) = copiedThisRun

\* C9.  The export sorts stably: two records at equal distance from the
\* target keep in the manifest the relative order they had in the selector's
\* result.
C9_StableSort ==
    pc = "done" =>
        \A i, j \in 1..Len(filtered) :
            (/\ i < j
             /\ Abs(filtered[i].duration_sec - config.target_duration)
                  = Abs(filtered[j].duration_sec - config.target_duration))
            => PositionOf(manifestRows, filtered[i].filename)
                 < PositionOf(manifestRows, filtered[j].filename)

\* C10.  The logged statistics treat empty transcriptions as missing: the
\* coverage numerator is the number of rows with a non-empty transcription,
\* and the average text length is the mean over those rows only.
C10_StatsIgnoreEmptyTranscriptions ==
    pc = "done" =>
        LET covered == {i \in 1..Len(manifestRows) :
                           manifestRows[i].transcription # StrCell("")}
            lenSum == SumOver([i \in 1..Len(manifestRows) |->
                         IF i \in covered THEN manifestRows[i]
                         ELSE [manifestRows[i] EXCEPT !.text_length = 0]],
                         "text_length")
            coverage == Logged("Transcription coverage")
            average == Logged("Avg text length")
        IN /\ coverage # {}
           /\ \A l \in coverage : l.sum = Cardinality(covered)
           /\ (average # {}) = (covered # {})
           /\ \A l \in average : l.sum * Cardinality(covered) = lenSum * l.count

====
